---- MODULE Spec2Model ----
(***************************************************************************)
(* Model of gomori's Board (src/gomori/src/board.rs): construction, the    *)
(* planning step calculate(), the commit step Diff::apply()/execute() and  *)
(* the read-only queries.  Coordinates are i8 values; arithmetic that the  *)
(* code performs on i8 without a check wraps modulo 2^8.                   *)
(***************************************************************************)
EXTENDS Integers, Sequences, FiniteSets, TLC

VARIABLES board, req, plan, prev, hand, plays, pc, input, fields_vec

vars == <<board, req, plan, prev, hand, plays, pc, input, fields_vec>>

(* ------------------------------ bounds -------------------------------- *)

\* Number of plays executed in one run.
MaxPlays == 2

(* ----------------------------- constants ------------------------------ *)

BOARD_SIZE == 4
I8_MIN == -128
I8_MAX == 127

(* ------------------------------- cards -------------------------------- *)

Suits == {"Diamond", "Heart", "Spade", "Club"}

FaceRanks == {"J", "Q", "K", "A"}

Card(s, r) == [suit |-> s, rank |-> r]

\* Option<Card>::None
NoCard == [suit |-> "none", rank |-> "none"]

\* Card::can_be_placed_on: same suit, same rank, or a face card on a number card.
can_be_placed_on(card, other) ==
    \/ card.suit = other.suit
    \/ card.rank = other.rank
    \/ (card.rank \in FaceRanks /\ other.rank \notin FaceRanks)

(* --------------------------- CompactField ----------------------------- *)

\* CompactField::new(): no top card, no hidden cards.
NewField == [top |-> NoCard, hidden |-> {}]

top_card(f) == f.top

hidden_cards(f) == f.hidden

\* CompactField::is_empty
is_empty(f) == f.top = NoCard /\ f.hidden = {}

\* CompactField::place_card: the prior top (if any) goes under, card on top.
place_card(f, card) ==
    [top |-> card,
     hidden |-> IF f.top = NoCard THEN f.hidden ELSE f.hidden \cup {f.top}]

\* CompactField::turn_face_down: the top (if any) joins the hidden cards.
turn_face_down(f) ==
    [top |-> NoCard,
     hidden |-> IF f.top = NoCard THEN f.hidden ELSE f.hidden \cup {f.top}]

\* CompactField::can_place_card
can_place_card(f, card) ==
    f.top = NoCard \/ can_be_placed_on(card, f.top)

\* CompactField::all_cards
all_cards(f) ==
    IF f.top = NoCard THEN f.hidden ELSE f.hidden \cup {f.top}

(* ---------------------------- BoundingBox ----------------------------- *)

Min(a, b) == IF a <= b THEN a ELSE b
Max(a, b) == IF a >= b THEN a ELSE b

\* i8 arithmetic without a check wraps modulo 2^8.
Wrap8(x) == ((x + 128) % 256) - 128

BBoxSingleton(i, j) == [i_min |-> i, j_min |-> j, i_max |-> i, j_max |-> j]

BBoxUpdate(bb, i, j) ==
    [i_min |-> Min(bb.i_min, i), j_min |-> Min(bb.j_min, j),
     i_max |-> Max(bb.i_max, i), j_max |-> Max(bb.j_max, j)]

size_i(bb) == bb.i_max - bb.i_min + 1
size_j(bb) == bb.j_max - bb.j_min + 1

(* ------------------------------ BitBoard ------------------------------ *)

\* A BitBoard is a set of coordinates tagged with its reference center.
EmptyBoardCenteredAt(c) == [center |-> c, bits |-> {}]

BBInsert(bb, i, j) == [bb EXCEPT !.bits = @ \cup {<<i, j>>}]

BBRemove(bb, i, j) == [bb EXCEPT !.bits = @ \ {<<i, j>>}]

BBContains(bb, i, j) == <<i, j>> \in bb.bits

BBDifference(a, b) == [a EXCEPT !.bits = @ \ b.bits]

BBIsEmpty(bb) == bb.bits = {}

\* BitBoard::insert_area: the rectangle i_min..i_max x j_min..j_max.
BBInsertArea(bb, i_min, j_min, i_max, j_max) ==
    [bb EXCEPT !.bits = @ \cup ((i_min .. i_max) \X (j_min .. j_max))]

\* The four directions of a line: row, column, diagonal, anti-diagonal.
Directions == {<<0, 1>>, <<1, 0>>, <<1, 1>>, <<1, -1>>}

\* The run of 4 consecutive coordinates along d that has (i, j) at offset k.
Run(i, j, d, k) ==
    {<<i + (t - k) * d[1], j + (t - k) * d[2]>> : t \in 0 .. (BOARD_SIZE - 1)}

\* BitBoard::lines_going_through_point: the union of the runs of 4 through
\* (i, j) all of whose coordinates are members.
lines_going_through_point(bb, i, j) ==
    [bb EXCEPT !.bits =
        UNION {Run(i, j, d[1], d[2]) :
                 d \in {e \in Directions \X (0 .. (BOARD_SIZE - 1)) :
                           Run(i, j, e[1], e[2]) \subseteq bb.bits}}]

(* ------------------------------- Board -------------------------------- *)

\* The set of indices of a cell list.
Idx(fields) == 1 .. Len(fields)

\* Lines 84-89: the bounding box seeded with the first cell and extended by
\* every cell of the list.
RECURSIVE BBoxOfFields(_, _, _)
BBoxOfFields(fields, bb, k) ==
    IF k > Len(fields) THEN bb
    ELSE BBoxOfFields(fields, BBoxUpdate(bb, fields[k].i, fields[k].j), k + 1)

\* Lines 85-92: per suit, the coordinates of the cells whose visible top
\* card has that suit.
BitBoardsOfFields(fields, center) ==
    [s \in Suits |->
        [center |-> center,
         bits |-> {<<fields[k].i, fields[k].j>> :
                     k \in {n \in Idx(fields) : top_card(fields[n].field).suit = s}}]]

\* Board::from_fields_list, the value built once the assertions pass.
from_fields_list(fields) ==
    LET bitboards_center == <<fields[1].i, fields[1].j>>
    IN [fields |-> fields,
        bitboards_center |-> bitboards_center,
        bbox |-> BBoxOfFields(fields, BBoxSingleton(fields[1].i, fields[1].j), 1),
        bitboards |-> BitBoardsOfFields(fields, bitboards_center)]

\* A Field: a coordinate, the optional visible top card and the hidden cards.
Field(i, j, top, hidden) ==
    [i |-> i, j |-> j, top_card |-> top, hidden_cards |-> hidden]

\* CompactField::from(&Field)
CompactFieldFrom(f) == [top |-> f.top_card, hidden |-> f.hidden_cards]

\* Line 74: the (i, j, CompactField) entries Board::new collects.
FieldEntries(fields) ==
    [k \in Idx(fields) |->
        [i |-> fields[k].i, j |-> fields[k].j, field |-> CompactFieldFrom(fields[k])]]

\* Line 88: the debug assertion that every entry holds a card.
DebugAssertHolds(fields) ==
    \A k \in Idx(fields) :
        top_card(fields[k].field) # NoCard \/ hidden_cards(fields[k].field) # {}

\* Mutant: only the span of the rows is asserted.
ConstructionAcceptsRows(fields) ==
    /\ Len(fields) > 0
    /\ LET bb == BBoxOfFields(fields, BBoxSingleton(fields[1].i, fields[1].j), 1)
       IN size_i(bb) <= BOARD_SIZE

\* The assertions of Board::from_fields_list (lines 82, 95, 96).
ConstructionAccepts(fields) ==
    /\ Len(fields) > 0
    /\ LET bb == BBoxOfFields(fields, BBoxSingleton(fields[1].i, fields[1].j), 1)
       IN size_i(bb) <= BOARD_SIZE /\ size_j(bb) <= BOARD_SIZE

\* Mutant: the difference is taken in wrapping i8 arithmetic.
WrappingSubBelowSize(a, b) == Wrap8(a - b) < BOARD_SIZE

\* Mutant: the comparison admits a difference of BOARD_SIZE.
CheckedSubAtMostSize(a, b) ==
    LET diff == a - b
    IN IF diff < I8_MIN \/ diff > I8_MAX THEN FALSE ELSE diff <= BOARD_SIZE

\* i8::checked_sub(a, b).map(|diff| diff < BOARD_SIZE).unwrap_or(false)
CheckedSubBelowSize(a, b) ==
    LET diff == a - b
    IN IF diff < I8_MIN \/ diff > I8_MAX THEN FALSE ELSE diff < BOARD_SIZE

\* Board::is_in_bounds
is_in_bounds(b, i, j) ==
    /\ CheckedSubBelowSize(i, b.bbox.i_min)
    /\ CheckedSubBelowSize(b.bbox.i_max, i)
    /\ CheckedSubBelowSize(j, b.bbox.j_min)
    /\ CheckedSubBelowSize(b.bbox.j_max, j)

\* Board::playable_area: plain i8 arithmetic, wrapping on overflow.
playable_area(b) ==
    [i_min |-> Wrap8(Wrap8(b.bbox.i_max - BOARD_SIZE) + 1),
     j_min |-> Wrap8(Wrap8(b.bbox.j_max - BOARD_SIZE) + 1),
     i_max |-> Wrap8(Wrap8(b.bbox.i_min + BOARD_SIZE) - 1),
     j_max |-> Wrap8(Wrap8(b.bbox.j_min + BOARD_SIZE) - 1)]

\* Board::get: the first cell at (i, j) as <<field>>, or <<>> for None.
get(b, i, j) ==
    LET hits == {k \in Idx(b.fields) : b.fields[k].i = i /\ b.fields[k].j = j}
    IN IF hits = {} THEN <<>>
       ELSE <<b.fields[CHOOSE k \in hits : \A m \in hits : k <= m].field>>

\* Lines 310-315: the Field built from an entry of the cell list.
FieldOfEntry(e) == Field(e.i, e.j, top_card(e.field), hidden_cards(e.field))

\* Lines 304-317: the Fields of the entries that are not empty, in order.
RECURSIVE FilterMapFields(_, _)
FilterMapFields(fields, k) ==
    IF k > Len(fields) THEN <<>>
    ELSE IF is_empty(fields[k].field) THEN FilterMapFields(fields, k + 1)
    ELSE <<FieldOfEntry(fields[k])>> \o FilterMapFields(fields, k + 1)

\* Mutant: the sort key is the row alone.
KeyLessByRow(a, b) == a.i < b.i

\* Line 319: the order of the sort key (f.i, f.j).
KeyLess(a, b) == a.i < b.i \/ (a.i = b.i /\ a.j < b.j)

\* One step of the stable sort: f goes before the first element whose key
\* is greater.
RECURSIVE InsertByKey(_, _)
InsertByKey(sorted, f) ==
    IF sorted = <<>> THEN <<f>>
    ELSE IF KeyLess(f, Head(sorted)) THEN <<f>> \o sorted
    ELSE <<Head(sorted)>> \o InsertByKey(Tail(sorted), f)

\* Vec::sort_by_key(|f| (f.i, f.j))
RECURSIVE SortByKey(_, _)
SortByKey(fs, k) ==
    IF k = 0 THEN <<>> ELSE InsertByKey(SortByKey(fs, k - 1), fs[k])

\* Board::to_fields_vec
to_fields_vec(b) ==
    LET fields_list == FilterMapFields(b.fields, 1)
    IN SortByKey(fields_list, Len(fields_list))

\* Board::possible_to_play_card
possible_to_play_card(b, card) ==
    IF Len(b.fields) < 16 THEN TRUE
    ELSE \E k \in Idx(b.fields) : can_place_card(b.fields[k].field, card)

\* Mutant: the playable rectangle, no rejecting cell removed.
locations_unfiltered(b, card) ==
    LET pa == playable_area(b)
    IN BBInsertArea(EmptyBoardCenteredAt(b.bitboards_center),
                    pa.i_min, pa.j_min, pa.i_max, pa.j_max)

\* Board::locations_for_card
locations_for_card(b, card) ==
    LET pa == playable_area(b)
        area == BBInsertArea(EmptyBoardCenteredAt(b.bitboards_center),
                             pa.i_min, pa.j_min, pa.i_max, pa.j_max)
    IN [area EXCEPT !.bits =
          @ \ {<<b.fields[k].i, b.fields[k].j>> :
                 k \in {n \in Idx(b.fields) : ~can_place_card(b.fields[n].field, card)}}]

\* Board::combo_locations_for_card
combo_locations_for_card(b, card) ==
    [center |-> b.bitboards_center,
     bits |-> {<<b.fields[k].i, b.fields[k].j>> :
                 k \in {n \in Idx(b.fields) : can_place_card(b.fields[n].field, card)}}]

(* ---------------------------- calculate ------------------------------- *)

\* A CardToPlay: the card, the play coordinate and the optional King target
\* (<<>> for None, <<tgt_i, tgt_j>> for Some).
CardToPlay(card, i, j, tgt) ==
    [card |-> card, i |-> i, j |-> j, target_field_for_king_ability |-> tgt]

\* Mutant: every listed coordinate is inserted, in bounds or not.
InsertUnchecked(b, flipped, coords) ==
    [flipped EXCEPT !.bits = @ \cup {coords[k] : k \in Idx(coords)}]

\* Insert into flipped those of the listed coordinates that are in bounds.
RECURSIVE InsertInBounds(_, _, _)
InsertInBounds(b, flipped, coords) ==
    IF coords = <<>> THEN flipped
    ELSE LET c == Head(coords)
         IN InsertInBounds(b,
                IF is_in_bounds(b, c[1], c[2]) THEN BBInsert(flipped, c[1], c[2])
                ELSE flipped,
                Tail(coords))

\* Mutant: a face-down target is rejected even when it is the play coordinate.
KingFlipStrict(b, ctp, flipped) ==
    LET tgt == ctp.target_field_for_king_ability
    IN IF tgt = <<>>
       THEN [err |-> "NoTargetForKingAbility", tgt |-> <<>>, flipped |-> flipped]
       ELSE LET field == get(b, tgt[1], tgt[2])
            IN IF field = <<>>
               THEN [err |-> "TargetForKingAbilityDoesNotExist",
                     tgt |-> tgt, flipped |-> flipped]
               ELSE IF top_card(field[1]) = NoCard
               THEN [err |-> "TargetForKingAbilityIsFaceDown",
                     tgt |-> tgt, flipped |-> flipped]
               ELSE [err |-> "", tgt |-> <<>>,
                     flipped |-> BBInsert(flipped, tgt[1], tgt[2])]

\* The Rank::King arm of Board::fields_to_flip.
KingFlip(b, ctp, flipped) ==
    LET tgt == ctp.target_field_for_king_ability
    IN IF tgt = <<>>
       THEN [err |-> "NoTargetForKingAbility", tgt |-> <<>>, flipped |-> flipped]
       ELSE LET field == get(b, tgt[1], tgt[2])
            IN IF field = <<>>
               THEN [err |-> "TargetForKingAbilityDoesNotExist",
                     tgt |-> tgt, flipped |-> flipped]
               ELSE IF top_card(field[1]) = NoCard /\ <<ctp.i, ctp.j>> # tgt
               THEN [err |-> "TargetForKingAbilityIsFaceDown",
                     tgt |-> tgt, flipped |-> flipped]
               ELSE [err |-> "", tgt |-> <<>>,
                     flipped |-> BBInsert(flipped, tgt[1], tgt[2])]

\* Board::fields_to_flip: err is "" for Ok(flipped), else the rejection.
fields_to_flip(b, ctp) ==
    LET card_i == ctp.i
        card_j == ctp.j
        flipped == EmptyBoardCenteredAt(b.bitboards_center)
    IN CASE ctp.card.rank = "J" ->
              [err |-> "", tgt |-> <<>>,
               flipped |-> InsertInBounds(b, flipped,
                              << <<Wrap8(card_i - 1), card_j>>,
                                 <<Wrap8(card_i + 1), card_j>>,
                                 <<card_i, Wrap8(card_j - 1)>>,
                                 <<card_i, Wrap8(card_j + 1)>> >>)]
         [] ctp.card.rank = "Q" ->
              [err |-> "", tgt |-> <<>>,
               flipped |-> InsertInBounds(b, flipped,
                              << <<Wrap8(card_i - 1), Wrap8(card_j - 1)>>,
                                 <<Wrap8(card_i - 1), Wrap8(card_j + 1)>>,
                                 <<Wrap8(card_i + 1), Wrap8(card_j - 1)>>,
                                 <<Wrap8(card_i + 1), Wrap8(card_j + 1)>> >>)]
         [] ctp.card.rank = "K" -> KingFlip(b, ctp, flipped)
         [] OTHER -> [err |-> "", tgt |-> <<>>, flipped |-> flipped]

\* The value of a rejected calculate: Err(status), with the card an
\* IncompatibleCard names and the target a King-target rejection names.
Rejection(b, ctp, status, existing_card, tgt) ==
    [status |-> status, existing_card |-> existing_card, tgt |-> tgt,
     flipped |-> EmptyBoardCenteredAt(b.bitboards_center),
     won |-> EmptyBoardCenteredAt(b.bitboards_center),
     new_card |-> ctp.card, new_card_i |-> ctp.i, new_card_j |-> ctp.j,
     cards_won |-> {}, combo |-> FALSE]

\* Mutant: once a cell is won, the cards of every cell are collected.
CardsWonOfAllCells(b, won) ==
    IF BBIsEmpty(won) THEN {}
    ELSE UNION {all_cards(b.fields[k].field) : k \in Idx(b.fields)}

\* Mutant: only the top cards of the won cells are collected.
CardsWonTopsOnly(b, won) ==
    {top_card(b.fields[k].field) :
        k \in {n \in Idx(b.fields) : BBContains(won, b.fields[n].i, b.fields[n].j)}}
    \ {NoCard}

\* Lines 163-171: the cards of every cell whose coordinate is in won.
CardsWon(b, won) ==
    UNION {all_cards(b.fields[k].field) :
             k \in {n \in Idx(b.fields) : BBContains(won, b.fields[n].i, b.fields[n].j)}}

\* Mutant: the play coordinate is left in the won set.
WonBoardKeepsPoint(b, ctp, flipped) ==
    lines_going_through_point(
        BBDifference(BBInsert(b.bitboards[ctp.card.suit], ctp.i, ctp.j), flipped),
        ctp.i, ctp.j)

\* Mutant: the flipped coordinates are not taken out before the line search.
WonBoardUnflipped(b, ctp, flipped) ==
    BBRemove(lines_going_through_point(
                 BBInsert(b.bitboards[ctp.card.suit], ctp.i, ctp.j), ctp.i, ctp.j),
             ctp.i, ctp.j)

\* Lines 151-161: the won coordinates.
WonBoard(b, ctp, flipped) ==
    LET cards_of_same_suit ==
            BBDifference(BBInsert(b.bitboards[ctp.card.suit], ctp.i, ctp.j), flipped)
    IN BBRemove(lines_going_through_point(cards_of_same_suit, ctp.i, ctp.j),
                ctp.i, ctp.j)

\* Mutant: only a cell with a visible top card makes a combo.
ComboVisible(existing_field) ==
    existing_field # <<>> /\ top_card(existing_field[1]) # NoCard

\* Lines 140-142: a play is a combo when the target cell exists.
Combo(existing_field) == existing_field # <<>>

\* Mutant: the compatibility test with its arguments exchanged.
IncompatibleSwapped(existing_field, card) ==
    /\ existing_field # <<>>
    /\ top_card(existing_field[1]) # NoCard
    /\ ~can_be_placed_on(top_card(existing_field[1]), card)

\* Lines 129-138: the target's visible top card rejects the played card.
Incompatible(existing_field, card) ==
    /\ existing_field # <<>>
    /\ top_card(existing_field[1]) # NoCard
    /\ ~can_be_placed_on(card, top_card(existing_field[1]))

\* Board::calculate: status "Ok" with the plan, or the rejection.
calculate(b, ctp) ==
    LET i == ctp.i
        j == ctp.j
        card == ctp.card
        existing_field == get(b, i, j)
    IN IF ~is_in_bounds(b, i, j)
       THEN Rejection(b, ctp, "OutOfBounds", NoCard, <<>>)
       ELSE IF Incompatible(existing_field, card)
       THEN Rejection(b, ctp, "IncompatibleCard", top_card(existing_field[1]), <<>>)
       ELSE LET combo == Combo(existing_field)
                ftf == IF combo THEN fields_to_flip(b, ctp)
                       ELSE [err |-> "", tgt |-> <<>>,
                             flipped |-> EmptyBoardCenteredAt(b.bitboards_center)]
            IN IF ftf.err # ""
               THEN Rejection(b, ctp, ftf.err, NoCard, ftf.tgt)
               ELSE LET won == WonBoard(b, ctp, ftf.flipped)
                    IN [status |-> "Ok", existing_card |-> NoCard, tgt |-> <<>>,
                        flipped |-> ftf.flipped,
                        won |-> won,
                        new_card |-> card, new_card_i |-> i, new_card_j |-> j,
                        cards_won |-> CardsWon(b, won),
                        combo |-> combo]

(* ------------------------------ execute ------------------------------- *)

\* Mutant: the cells in the won set are copied like the others.
RECURSIVE CopyFieldsKeepWon(_, _, _)
CopyFieldsKeepWon(fields, diff, k) ==
    IF k > Len(fields) THEN <<>>
    ELSE LET e == fields[k]
             placed == IF <<e.i, e.j>> = <<diff.new_card_i, diff.new_card_j>>
                       THEN place_card(e.field, diff.new_card) ELSE e.field
             turned == IF BBContains(diff.flipped, e.i, e.j)
                       THEN turn_face_down(placed) ELSE placed
         IN <<[i |-> e.i, j |-> e.j, field |-> turned]>>
            \o CopyFieldsKeepWon(fields, diff, k + 1)

\* Mutant: the new card is placed on a fresh cell that replaces the stack at
\* the play coordinate.
RECURSIVE CopyFieldsFreshStack(_, _, _)
CopyFieldsFreshStack(fields, diff, k) ==
    IF k > Len(fields) THEN <<>>
    ELSE LET e == fields[k]
             placed == IF <<e.i, e.j>> = <<diff.new_card_i, diff.new_card_j>>
                       THEN place_card(NewField, diff.new_card) ELSE e.field
             turned == IF BBContains(diff.flipped, e.i, e.j)
                       THEN turn_face_down(placed) ELSE placed
         IN IF BBContains(diff.won, e.i, e.j)
            THEN CopyFieldsFreshStack(fields, diff, k + 1)
            ELSE <<[i |-> e.i, j |-> e.j, field |-> turned]>>
                 \o CopyFieldsFreshStack(fields, diff, k + 1)

\* Mutant: a cell is turned face down before the new card is placed on it.
RECURSIVE CopyFieldsFlipFirst(_, _, _)
CopyFieldsFlipFirst(fields, diff, k) ==
    IF k > Len(fields) THEN <<>>
    ELSE LET e == fields[k]
             turned == IF BBContains(diff.flipped, e.i, e.j)
                       THEN turn_face_down(e.field) ELSE e.field
             placed == IF <<e.i, e.j>> = <<diff.new_card_i, diff.new_card_j>>
                       THEN place_card(turned, diff.new_card) ELSE turned
         IN IF BBContains(diff.won, e.i, e.j)
            THEN CopyFieldsFlipFirst(fields, diff, k + 1)
            ELSE <<[i |-> e.i, j |-> e.j, field |-> placed]>>
                 \o CopyFieldsFlipFirst(fields, diff, k + 1)

\* Lines 397-408: the surviving cells, in order, with the new card placed
\* and the flips applied.
RECURSIVE CopyFields(_, _, _)
CopyFields(fields, diff, k) ==
    IF k > Len(fields) THEN <<>>
    ELSE LET e == fields[k]
             placed == IF <<e.i, e.j>> = <<diff.new_card_i, diff.new_card_j>>
                       THEN place_card(e.field, diff.new_card) ELSE e.field
             turned == IF BBContains(diff.flipped, e.i, e.j)
                       THEN turn_face_down(placed) ELSE placed
         IN IF BBContains(diff.won, e.i, e.j)
            THEN CopyFields(fields, diff, k + 1)
            ELSE <<[i |-> e.i, j |-> e.j, field |-> turned]>>
                 \o CopyFields(fields, diff, k + 1)

\* Mutant: the synthesized cell is pushed without the new card placed on it.
SynthesizedFieldUnplaced(diff) == NewField

\* Lines 417-427: the cell synthesized for the new card.
SynthesizedField(diff) ==
    IF BBContains(diff.flipped, diff.new_card_i, diff.new_card_j)
    THEN turn_face_down(place_card(NewField, diff.new_card))
    ELSE place_card(NewField, diff.new_card)

\* Mutant: the new card's coordinate is not entered in its suit's BitBoard.
SynthesizedBitBoardsSkipped(diff, bitboards) == bitboards

\* Lines 420-425: the suit BitBoards once the synthesized cell is added.
SynthesizedBitBoards(diff, bitboards) ==
    IF BBContains(diff.flipped, diff.new_card_i, diff.new_card_j)
    THEN bitboards
    ELSE [bitboards EXCEPT ![diff.new_card.suit] =
             BBInsert(@, diff.new_card_i, diff.new_card_j)]

\* Mutant: a cell for the new card is pushed even when one was copied.
applyAlwaysPush(diff, b) ==
    LET copied == CopyFields(b.fields, diff, 1)
        bitboards_center == <<diff.new_card_i, diff.new_card_j>>
        field_for_new_card_already_exists == FALSE
        copied_boards == BitBoardsOfFields(copied, bitboards_center)
        new_fields ==
            IF field_for_new_card_already_exists THEN copied
            ELSE Append(copied, [i |-> diff.new_card_i, j |-> diff.new_card_j,
                                 field |-> SynthesizedField(diff)])
        bitboards ==
            IF field_for_new_card_already_exists THEN copied_boards
            ELSE SynthesizedBitBoards(diff, copied_boards)
    IN [fields |-> new_fields,
        bitboards_center |-> bitboards_center,
        bbox |-> BBoxOfFields(copied,
                     BBoxSingleton(diff.new_card_i, diff.new_card_j), 1),
        bitboards |-> bitboards]

\* Diff::apply
apply(diff, b) ==
    LET copied == CopyFields(b.fields, diff, 1)
        bitboards_center == <<diff.new_card_i, diff.new_card_j>>
        field_for_new_card_already_exists ==
            \E k \in Idx(b.fields) :
                /\ ~BBContains(diff.won, b.fields[k].i, b.fields[k].j)
                /\ <<b.fields[k].i, b.fields[k].j>> = bitboards_center
        copied_boards == BitBoardsOfFields(copied, bitboards_center)
        new_fields ==
            IF field_for_new_card_already_exists THEN copied
            ELSE Append(copied, [i |-> diff.new_card_i, j |-> diff.new_card_j,
                                 field |-> SynthesizedField(diff)])
        bitboards ==
            IF field_for_new_card_already_exists THEN copied_boards
            ELSE SynthesizedBitBoards(diff, copied_boards)
    IN [fields |-> new_fields,
        bitboards_center |-> bitboards_center,
        bbox |-> BBoxOfFields(copied,
                     BBoxSingleton(diff.new_card_i, diff.new_card_j), 1),
        bitboards |-> bitboards]

(* ----------------------------- scenarios ------------------------------ *)

D(r) == Card("Diamond", r)
H(r) == Card("Heart", r)
S(r) == Card("Spade", r)
C(r) == Card("Club", r)

Cell(i, j, top, hidden) ==
    [i |-> i, j |-> j, field |-> [top |-> top, hidden |-> hidden]]

\* tests::play_card_horizontal
HorizontalFields ==
    << Cell(-1, 0, D("4"), {}), Cell(-1, -1, D("5"), {}),
       Cell(-1, -2, D("6"), {}), Cell(-1, -3, S("A"), {}) >>

\* tests::play_card_antidiag
AntidiagFields ==
    << Cell(-1, 0, D("4"), {}), Cell(0, -1, D("5"), {}),
       Cell(1, -2, D("6"), {}), Cell(2, -3, S("A"), {}) >>

\* Stacked and face-down cells.
StackedFields ==
    << Cell(0, 0, D("4"), {S("4")}), Cell(0, 1, NoCard, {S("5"), D("5")}),
       Cell(1, 0, D("6"), {}), Cell(1, 1, H("K"), {}) >>

\* Cells at the smallest i8 coordinates.
LowCornerFields ==
    << Cell(I8_MIN, I8_MIN, D("4"), {}), Cell(I8_MIN, I8_MIN + 1, D("5"), {}) >>

\* A cell at the largest i8 coordinates.
HighCornerFields ==
    << Cell(I8_MAX, I8_MAX, S("4"), {}) >>

\* All 16 cells of a 4 x 4 box occupied by visible cards.
FullFields ==
    << Cell(0, 0, D("2"), {}), Cell(0, 1, D("3"), {}),
       Cell(0, 2, D("4"), {}), Cell(0, 3, H("5"), {}),
       Cell(1, 0, H("2"), {}), Cell(1, 1, H("3"), {}),
       Cell(1, 2, H("4"), {}), Cell(1, 3, H("K"), {}),
       Cell(2, 0, C("2"), {}), Cell(2, 1, C("3"), {}),
       Cell(2, 2, C("4"), {}), Cell(2, 3, C("K"), {}),
       Cell(3, 0, C("5"), {}), Cell(3, 1, C("6"), {}),
       Cell(3, 2, C("8"), {H("8")}), Cell(3, 3, C("9"), {}) >>

\* Three diamonds in a row next to a spade that a Jack or a 5 may cover.
RowFields ==
    << Cell(0, 0, D("4"), {}), Cell(0, 1, D("5"), {C("5")}),
       Cell(0, 2, D("6"), {}), Cell(0, 3, S("5"), {}) >>

\* The cell lists a run starts from, each with the cards still to be played.
Scenarios ==
    { [fields |-> HorizontalFields, hand |-> {D("A"), D("J")}],
      [fields |-> HorizontalFields, hand |-> {S("K"), D("A")}],
      [fields |-> AntidiagFields, hand |-> {D("A"), D("Q")}],
      [fields |-> StackedFields, hand |-> {D("K"), D("J")}],
      [fields |-> StackedFields, hand |-> {S("7"), D("Q")}],
      [fields |-> LowCornerFields, hand |-> {D("A"), D("J")}],
      [fields |-> HighCornerFields, hand |-> {S("Q"), S("K")}],
      [fields |-> FullFields, hand |-> {S("7"), D("A"), D("J")}],
      [fields |-> RowFields, hand |-> {D("J"), D("5")}],
      [fields |-> RowFields, hand |-> {D("5"), D("A")}] }

\* Every card of the scenarios' hands.
Deck == UNION {sc.hand : sc \in Scenarios}

(* --------------------------- state machine ---------------------------- *)

NoReq == CardToPlay(NoCard, 0, 0, <<>>)

NoPlan(b) == Rejection(b, NoReq, "None", NoCard, <<>>)

\* The coordinates a caller aims at: every coordinate within BOARD_SIZE of
\* the far edge of the occupied bounding box (the coordinates a play may be
\* accepted at and the ring around them), within the i8 range.
AimI(b) ==
    Max(I8_MIN, b.bbox.i_max - BOARD_SIZE) .. Min(I8_MAX, b.bbox.i_min + BOARD_SIZE)
AimJ(b) ==
    Max(I8_MIN, b.bbox.j_max - BOARD_SIZE) .. Min(I8_MAX, b.bbox.j_min + BOARD_SIZE)

\* The King targets a caller passes with a play at (i, j): none, a cell of
\* the board, the play coordinate or its right-hand neighbour; none for a
\* card that is no King (the code reads the target only for a King).
Targets(b, card, i, j) ==
    IF card.rank = "K"
    THEN {<<>>, <<i, j>>, <<i, Min(I8_MAX, j + 1)>>}
         \cup {<<b.fields[k].i, b.fields[k].j>> : k \in Idx(b.fields)}
    ELSE {<<>>}

Init ==
    \E sc \in Scenarios :
        /\ ConstructionAccepts(sc.fields)
        /\ board = from_fields_list(sc.fields)
        /\ hand = sc.hand
        /\ prev = board
        /\ req = NoReq
        /\ plan = NoPlan(board)
        /\ plays = 0
        /\ pc = "idle"
        /\ input = [k \in Idx(sc.fields) |-> FieldOfEntry(sc.fields[k])]
        /\ fields_vec = <<>>

\* Mutant: the played coordinate is entered in the source board's own suit
\* BitBoard while planning.
CalculateInPlace(ctp) ==
    /\ plays < MaxPlays
    /\ pc \in {"idle", "executed"}
    /\ req' = ctp
    /\ plan' = calculate(board, ctp)
    /\ board' = [board EXCEPT !.bitboards[ctp.card.suit] = BBInsert(@, ctp.i, ctp.j)]
    /\ pc' = "planned"
    /\ UNCHANGED <<prev, hand, plays, input, fields_vec>>

\* Board::calculate: the plan or the rejection; the board is only read.
\* A caller holding a plan executes it or drops it; planning again from the
\* same board yields the states planning from it yields directly.
Calculate(ctp) ==
    /\ plays < MaxPlays
    /\ pc \in {"idle", "executed"}
    /\ req' = ctp
    /\ plan' = calculate(board, ctp)
    /\ pc' = "planned"
    /\ UNCHANGED <<board, prev, hand, plays, input, fields_vec>>

\* CalculatedEffects::execute: a new Board; the source stays as it was.
Execute ==
    /\ pc = "planned"
    /\ plan.status = "Ok"
    /\ board' = apply(plan, board)
    /\ prev' = board
    /\ hand' = hand \ {plan.new_card}
    /\ plays' = plays + 1
    /\ pc' = "executed"
    /\ UNCHANGED <<req, plan, input, fields_vec>>

\* Board::play_card: calculate immediately followed by execute.
PlayCard(ctp) ==
    /\ plays < MaxPlays
    /\ pc \in {"idle", "executed"}
    /\ LET effects == calculate(board, ctp)
       IN /\ effects.status = "Ok"
          /\ req' = ctp
          /\ plan' = effects
          /\ board' = apply(effects, board)
    /\ prev' = board
    /\ hand' = hand \ {ctp.card}
    /\ plays' = plays + 1
    /\ pc' = "executed"
    /\ UNCHANGED <<input, fields_vec>>

Next ==
    \/ \E card \in hand, i \in AimI(board), j \in AimJ(board) :
         \E tgt \in Targets(board, card, i, j) :
            Calculate(CardToPlay(card, i, j, tgt))
    \/ Execute
    \/ \E card \in hand, i \in AimI(board), j \in AimJ(board) :
         \E tgt \in Targets(board, card, i, j) :
            PlayCard(CardToPlay(card, i, j, tgt))

Spec == Init /\ [][Next]_vars

(* ---------------- construction and snapshot of a board ---------------- *)

\* The longest cell list handed to Board::new.
MaxCells == 2

\* The cells a caller lists: coordinates that span 1, 2 or 5 rows and 3, 4
\* or 6 columns, each holding a visible card over a hidden one, or nothing.
NewCoordsI == {0, 1, BOARD_SIZE}
NewCoordsJ == {0, BOARD_SIZE - 1, BOARD_SIZE + 1}
NewFields ==
    {Field(i, j, D("4"), {S("4")}) : i \in NewCoordsI, j \in NewCoordsJ}
    \cup {Field(i, j, NoCard, {}) : i \in NewCoordsI, j \in NewCoordsJ}

\* Every list of at most MaxCells of those cells, in every order.
NewInputs == UNION {[1 .. n -> NewFields] : n \in 0 .. MaxCells}

\* Board::new
new(fields) == from_fields_list(FieldEntries(fields))

\* The value of board while no board is built.
Unbuilt ==
    [fields |-> <<>>, bitboards_center |-> <<0, 0>>, bbox |-> BBoxSingleton(0, 0),
     bitboards |-> BitBoardsOfFields(<<>>, <<0, 0>>)]

InitNew ==
    /\ input \in NewInputs
    /\ board = Unbuilt
    /\ prev = Unbuilt
    /\ hand = {D("J")}
    /\ req = NoReq
    /\ plan = NoPlan(Unbuilt)
    /\ plays = 0
    /\ pc = "input"
    /\ fields_vec = <<>>

\* Board::new on the input, in a build with or without debug assertions:
\* the board, or the panic of a failed assertion.
NewBoard(debug_assertions) ==
    /\ pc = "input"
    /\ IF /\ ConstructionAccepts(FieldEntries(input))
          /\ debug_assertions => DebugAssertHolds(FieldEntries(input))
       THEN /\ board' = new(input)
            /\ prev' = board'
            /\ plan' = NoPlan(board')
            /\ pc' = "idle"
       ELSE /\ pc' = "panicked"
            /\ UNCHANGED <<board, prev, plan>>
    /\ UNCHANGED <<req, hand, plays, input, fields_vec>>

\* Board::to_fields_vec on the current board.
ToFieldsVec ==
    /\ pc \in {"idle", "executed"}
    /\ fields_vec' = to_fields_vec(board)
    /\ pc' = "snapshot"
    /\ UNCHANGED <<board, req, plan, prev, hand, plays, input>>

NextNew ==
    \/ \E debug_assertions \in BOOLEAN : NewBoard(debug_assertions)
    \/ ToFieldsVec
    \/ \E card \in hand, i \in AimI(board), j \in AimJ(board) :
         \E tgt \in Targets(board, card, i, j) :
            PlayCard(CardToPlay(card, i, j, tgt))

SpecNew == InitNew /\ [][NextNew]_vars

(* ----------------------- the bounds check alone ----------------------- *)

\* i8 values at and next to the ends of the range, around zero, and at the
\* distances from them where the answer changes.
Probes ==
    {I8_MIN, I8_MIN + 1, I8_MIN + BOARD_SIZE - 1, I8_MIN + BOARD_SIZE,
     -1, 0, BOARD_SIZE - 1, BOARD_SIZE,
     I8_MAX - BOARD_SIZE, I8_MAX - BOARD_SIZE + 1, I8_MAX - 1, I8_MAX}
FewProbes == {I8_MIN, 0, I8_MAX}

\* A board of which only the bounding box is read.
BoardOfBBox(bb) == [Unbuilt EXCEPT !.bbox = bb]

InitBounds ==
    \E axes \in {<<Probes, FewProbes>>, <<FewProbes, Probes>>} :
        \E i_min \in axes[1], i_max \in axes[1], i \in axes[1],
           j_min \in axes[2], j_max \in axes[2], j \in axes[2] :
            /\ i_min <= i_max /\ j_min <= j_max
            /\ board = BoardOfBBox([i_min |-> i_min, j_min |-> j_min,
                                     i_max |-> i_max, j_max |-> j_max])
            /\ req = CardToPlay(NoCard, i, j, <<>>)
            /\ prev = board
            /\ plan = NoPlan(board)
            /\ hand = {}
            /\ plays = 0
            /\ pc = "query"
            /\ input = <<>>
            /\ fields_vec = <<>>

\* Board::is_in_bounds on the queried coordinate.
IsInBounds ==
    /\ pc = "query"
    /\ pc' = IF is_in_bounds(board, req.i, req.j) THEN "inside" ELSE "outside"
    /\ UNCHANGED <<board, req, plan, prev, hand, plays, input, fields_vec>>

NextBounds == IsInBounds

SpecBounds == InitBounds /\ [][NextBounds]_vars

(* ------------------------------ properties ---------------------------- *)

\* The coordinates of the cells of a board.
CellCoords(b) == {<<b.fields[k].i, b.fields[k].j>> : k \in Idx(b.fields)}

\* (i, j) lies in the rectangle bb.
InRect(bb, i, j) ==
    bb.i_min <= i /\ i <= bb.i_max /\ bb.j_min <= j /\ j <= bb.j_max

\* The last executed play stacked a card on an existing cell of prev.
ExecutedCombo == pc = "executed" /\ get(prev, req.i, req.j) # <<>>

\* C1: after any sequence of successful plays from an accepted board, the
\* board's bounding box has size_i <= 4 and size_j <= 4.
C1_BBoxWithinBoardSize ==
    /\ size_i(board.bbox) <= BOARD_SIZE
    /\ size_j(board.bbox) <= BOARD_SIZE
    /\ \A c \in CellCoords(board) : InRect(board.bbox, c[1], c[2])

\* A second play has grown the bounding box to the full span on an axis.
C1_Witness ==
    /\ pc = "executed" /\ plays = 2
    /\ size_i(prev.bbox) < BOARD_SIZE
    /\ size_i(board.bbox) = BOARD_SIZE

\* C2: after any sequence of successful plays, every entry of the cell list
\* has a top card or at least one hidden card.
C2_NoEmptyEntry ==
    \A k \in Idx(board.fields) : ~is_empty(board.fields[k].field)

\* A King was played on a face-down cell with that cell as its own target,
\* so the flip set covers the play coordinate and a face-down cell.
C2_Witness ==
    /\ ExecutedCombo
    /\ BBContains(plan.flipped, req.i, req.j)
    /\ top_card(get(prev, req.i, req.j)[1]) = NoCard
    /\ get(board, req.i, req.j) # <<>>

\* C3: for each suit s and coordinate, the suit-s BitBoard contains the
\* coordinate if and only if the cell list has an entry there whose visible
\* top card has suit s.
C3_BitBoardsReflectTops ==
    \A s \in Suits :
        board.bitboards[s].bits =
            {c \in CellCoords(board) :
                \E k \in Idx(board.fields) :
                    /\ <<board.fields[k].i, board.fields[k].j>> = c
                    /\ top_card(board.fields[k].field).suit = s}

\* A play has turned a visible card face-down: its coordinate was in a suit
\* BitBoard of the source board and its cell is still on the new board.
C3_Witness ==
    /\ pc = "executed"
    /\ \E c \in CellCoords(board) :
          /\ BBContains(plan.flipped, c[1], c[2])
          /\ c # <<req.i, req.j>>
          /\ \E s \in Suits : c \in prev.bitboards[s].bits

\* C4 (as claimed): possible_to_play_card(card) is true if and only if
\* locations_for_card(card) contains at least one coordinate.
C4_PossibleIffLocation ==
    pc # "planned" =>
        \A card \in Deck :
            possible_to_play_card(board, card)
                <=> ~BBIsEmpty(locations_for_card(board, card))

\* playable_area() overflows i8 on this board: its occupied bounding box lies
\* within BOARD_SIZE - 1 of the end of the i8 range.
PlayableAreaOverflows(b) ==
    \/ b.bbox.i_max - BOARD_SIZE < I8_MIN
    \/ b.bbox.j_max - BOARD_SIZE < I8_MIN
    \/ b.bbox.i_min + BOARD_SIZE > I8_MAX
    \/ b.bbox.j_min + BOARD_SIZE > I8_MAX

\* The statement of C4 on the boards where playable_area() does not overflow.
C4_HoldsWithoutOverflow ==
    ~PlayableAreaOverflows(board) => C4_PossibleIffLocation

\* C5: for every card and every coordinate in locations_for_card(card),
\* calculate with no King target succeeds or is rejected with
\* NoTargetForKingAbility.
C5_LocationsAreAccepted ==
    (/\ pc = "planned"
     /\ req.target_field_for_king_ability = <<>>
     /\ BBContains(locations_for_card(board, req.card), req.i, req.j)) =>
        plan.status \in {"Ok", "NoTargetForKingAbility"}

\* After a play, a King without a target was planned on an occupied cell
\* that locations_for_card lists, and was rejected for its missing target.
C5_Witness ==
    /\ pc = "planned" /\ plays = 1
    /\ req.target_field_for_king_ability = <<>>
    /\ BBContains(locations_for_card(board, req.card), req.i, req.j)
    /\ get(board, req.i, req.j) # <<>>
    /\ plan.status = "NoTargetForKingAbility"

\* C6: calculate, accepted or rejected, leaves the source board unchanged,
\* and execute leaves it unchanged too: the earlier generation is still
\* held and planning the same play on it again yields the same plan.
C6_SourceUntouched ==
    [][/\ pc' = "planned" => board' = board /\ prev' = prev
       /\ pc' = "executed" => prev' = board /\ calculate(prev', req') = plan']_vars

\* A calculate was rejected on a board that an earlier play produced.
C6_Witness ==
    /\ pc = "planned" /\ plays = 1
    /\ plan.status = "IncompatibleCard"
    /\ prev # board

\* C7 (as claimed): calculate rejects with OutOfBounds exactly when the
\* target lies outside the rectangle playable_area() returns.
C7_OutOfBoundsIffOutsidePlayableArea ==
    pc = "planned" =>
        (plan.status = "OutOfBounds"
            <=> ~InRect(playable_area(board), req.i, req.j))

\* The statement of C7 on the boards where playable_area() does not overflow.
C7_HoldsWithoutOverflow ==
    ~PlayableAreaOverflows(board) => C7_OutOfBoundsIffOutsidePlayableArea

\* C8: for an in-bounds target, calculate rejects with IncompatibleCard,
\* carrying the target's visible top card, exactly when the target cell has
\* a visible top card on which the played card cannot be placed.
C8_IncompatibleIffTopRejects ==
    (pc = "planned" /\ plan.status # "OutOfBounds") =>
        LET f == get(board, req.i, req.j)
            rejects == /\ f # <<>>
                       /\ f[1].top # NoCard
                       /\ ~can_be_placed_on(req.card, f[1].top)
        IN /\ plan.status = "IncompatibleCard" <=> rejects
           /\ plan.status = "IncompatibleCard" => plan.existing_card = f[1].top

\* A face card was rejected on a face card of another suit and rank.
C8_Witness ==
    /\ pc = "planned"
    /\ plan.status = "IncompatibleCard"
    /\ req.card.rank \in FaceRanks
    /\ plays = 1

\* C9: a King played as a combo is rejected as NoTargetForKingAbility with
\* no target, as TargetForKingAbilityDoesNotExist with a target that has no
\* cell, as TargetForKingAbilityIsFaceDown with a face-down target other
\* than the play coordinate, and is accepted in every other case.
C9_KingTargetRejections ==
    LET f == get(board, req.i, req.j)
        tgt == req.target_field_for_king_ability
    IN (/\ pc = "planned"
        /\ req.card.rank = "K"
        /\ plan.status \notin {"OutOfBounds", "IncompatibleCard"}
        /\ f # <<>>) =>
          plan.status =
            IF tgt = <<>> THEN "NoTargetForKingAbility"
            ELSE IF get(board, tgt[1], tgt[2]) = <<>>
            THEN "TargetForKingAbilityDoesNotExist"
            ELSE IF get(board, tgt[1], tgt[2])[1].top = NoCard /\ tgt # <<req.i, req.j>>
            THEN "TargetForKingAbilityIsFaceDown"
            ELSE "Ok"

\* A King played on a face-down cell with that cell as target was accepted.
C9_Witness ==
    /\ pc = "planned"
    /\ req.card.rank = "K"
    /\ req.target_field_for_king_ability = <<req.i, req.j>>
    /\ get(board, req.i, req.j) # <<>>
    /\ get(board, req.i, req.j)[1].top = NoCard
    /\ plan.status = "Ok"

\* C10: the combo flag of an accepted play is true exactly when the source
\* board has an entry at the target; when it is false the flip set is empty,
\* and an in-bounds play on an unoccupied coordinate is accepted, a King
\* without a target included.
C10_ComboIffEntry ==
    pc = "planned" =>
        LET f == get(board, req.i, req.j)
        IN /\ plan.status = "Ok" => (plan.combo <=> f # <<>>)
           /\ (plan.status = "Ok" /\ ~plan.combo) => BBIsEmpty(plan.flipped)
           /\ (f = <<>> /\ is_in_bounds(board, req.i, req.j)) =>
                 plan.status = "Ok" /\ BBIsEmpty(plan.flipped)

\* A card was planned onto a face-down cell (a combo), on a board where a
\* King without a target is accepted on an unoccupied coordinate.
C10_Witness ==
    /\ pc = "planned"
    /\ plan.status = "Ok"
    /\ plan.combo
    /\ get(board, req.i, req.j)[1].top = NoCard
    /\ \E i \in AimI(board), j \in AimJ(board) :
          /\ get(board, i, j) = <<>>
          /\ calculate(board, CardToPlay(S("K"), i, j, <<>>)).status = "Ok"

\* (i, j) is an i8 coordinate within the 4 x 4 reach of the bounding box of
\* b, computed over the unbounded integers.
WithinReach(b, i, j) ==
    /\ i \in I8_MIN..I8_MAX /\ j \in I8_MIN..I8_MAX
    /\ b.bbox.i_max - (BOARD_SIZE - 1) <= i /\ i <= b.bbox.i_min + (BOARD_SIZE - 1)
    /\ b.bbox.j_max - (BOARD_SIZE - 1) <= j /\ j <= b.bbox.j_min + (BOARD_SIZE - 1)

OrthogonalOffsets == {<<-1, 0>>, <<1, 0>>, <<0, -1>>, <<0, 1>>}
DiagonalOffsets == {<<-1, -1>>, <<-1, 1>>, <<1, -1>>, <<1, 1>>}

\* The coordinates at the given offsets from (i, j) that are in bounds.
NeighboursInBounds(b, i, j, offsets) ==
    {c \in {<<i + o[1], j + o[2]>> : o \in offsets} : WithinReach(b, c[1], c[2])}

\* The plan on the table is an accepted combo play.
PlannedCombo == pc = "planned" /\ plan.status = "Ok" /\ plan.combo

\* C11: the flip set of an accepted combo play is, for a Jack, the in-bounds
\* orthogonal neighbours of the play coordinate (occupied or not); for a
\* Queen, the in-bounds diagonal neighbours; for a King, the single King
\* target; for any other rank, empty.
C11_FlipSetByRank ==
    PlannedCombo =>
        plan.flipped.bits =
            CASE req.card.rank = "J" ->
                   NeighboursInBounds(board, req.i, req.j, OrthogonalOffsets)
              [] req.card.rank = "Q" ->
                   NeighboursInBounds(board, req.i, req.j, DiagonalOffsets)
              [] req.card.rank = "K" -> {req.target_field_for_king_ability}
              [] OTHER -> {}

\* A Jack combo is planned with an orthogonal neighbour out of bounds (left
\* out of the flip set) and an unoccupied one in bounds (in the flip set).
C11_Witness ==
    /\ PlannedCombo /\ req.card.rank = "J"
    /\ \E o \in OrthogonalOffsets :
          ~WithinReach(board, req.i + o[1], req.j + o[2])
    /\ \E c \in plan.flipped.bits : c \notin CellCoords(board)

\* The field of the cell of b at coordinate c (which must exist).
FieldAt(b, c) == get(b, c[1], c[2])[1]

\* C12: after executing an accepted combo play of a Jack, every surviving
\* cell at an in-bounds orthogonal neighbour of the play coordinate has no
\* visible top card and holds its former top card among its hidden cards, and
\* no such neighbour is in the won set, even when its former top card had
\* the played suit and would otherwise have completed a line.
C12_JackTurnsNeighboursDown ==
    (ExecutedCombo /\ req.card.rank = "J") =>
        \A c \in NeighboursInBounds(prev, req.i, req.j, OrthogonalOffsets) :
            /\ c \notin plan.won.bits
            /\ (c \in CellCoords(prev)) = (c \in CellCoords(board))
            /\ c \in CellCoords(board) =>
                  /\ top_card(FieldAt(board, c)) = NoCard
                  /\ top_card(FieldAt(prev, c)) # NoCard =>
                        top_card(FieldAt(prev, c)) \in hidden_cards(FieldAt(board, c))

\* A Jack was stacked at the end of a row of three visible cards of its suit:
\* its neighbour in the row would have been won had it not been flipped.
C12_Witness ==
    /\ ExecutedCombo /\ req.card.rank = "J"
    /\ \E c \in NeighboursInBounds(prev, req.i, req.j, OrthogonalOffsets) :
          /\ c \in CellCoords(prev)
          /\ top_card(FieldAt(prev, c)).suit = req.card.suit
          /\ c \in lines_going_through_point(
                      BBInsert(prev.bitboards[req.card.suit], req.i, req.j),
                      req.i, req.j).bits
          /\ top_card(FieldAt(board, c)) = NoCard

\* The plan on the table is an accepted play.
PlannedOk == pc = "planned" /\ plan.status = "Ok"

\* The 4 consecutive coordinates along direction d whose k-th is (i, j).
Window(i, j, d, k) ==
    {<<i + (m - k) * d[1], j + (m - k) * d[2]>> : m \in 0..(BOARD_SIZE - 1)}

\* The cell list of b has a cell at c whose visible top card has suit s.
VisibleSuitAt(b, c, s) ==
    c \in CellCoords(b) /\ top_card(FieldAt(b, c)).suit = s

\* C13: for an accepted play of suit s at (i, j), a coordinate c # (i, j) is
\* in the won set iff c lies on a run of 4 consecutive coordinates through
\* (i, j) along a row, column, diagonal or anti-diagonal in which every
\* coordinate other than (i, j) is, in the source board, a cell whose visible
\* top card has suit s and is not in the flip set, and (i, j) itself is not in
\* the flip set; the play coordinate is never in the won set.
C13_WonIffOnCompletedRun ==
    PlannedOk =>
        LET p == <<req.i, req.j>>
            s == req.card.suit
            OnRun(c) ==
                /\ p \notin plan.flipped.bits
                /\ \E d \in {<<0, 1>>, <<1, 0>>, <<1, 1>>, <<1, -1>>},
                      k \in 0..(BOARD_SIZE - 1) :
                      /\ c \in Window(p[1], p[2], d, k)
                      /\ \A e \in Window(p[1], p[2], d, k) \ {p} :
                            VisibleSuitAt(board, e, s) /\ e \notin plan.flipped.bits
        IN /\ p \notin plan.won.bits
           /\ plan.won.bits = {c \in CellCoords(board) \ {p} : OnRun(c)}

\* An accepted play is planned that completes a line and wins its three
\* other cells.
C13_Witness ==
    /\ PlannedOk
    /\ Cardinality(plan.won.bits) = BOARD_SIZE - 1
    /\ plan.won.bits \subseteq CellCoords(board)

\* The cards of the cells of b whose coordinates are in the set cs.
CardsAt(b, cs) == UNION {all_cards(FieldAt(b, c)) : c \in CellCoords(b) \cap cs}

\* cards_won is the union, over the source cells in the won set, of their
\* cards, and holds no card of the play coordinate's prior stack.
CardsWonAreTheWonCells ==
    /\ plan.cards_won = CardsAt(board, plan.won.bits)
    /\ plan.cards_won \cap CardsAt(board, {<<req.i, req.j>>}) = {}

Executed == pc = "executed"

\* C15: after executing any accepted play, the new board has an entry at the
\* play coordinate containing the played card, even when the play completed
\* a line; the played card is the visible top card (the prior top card
\* moved into the hidden set) unless the flip set contains the play
\* coordinate, in which case the played card is hidden and the cell is face
\* down.
C15_PlayedCardStays ==
    Executed =>
        LET p == <<req.i, req.j>>
            before == get(prev, req.i, req.j)
        IN /\ p \in CellCoords(board)
           /\ req.card \in all_cards(FieldAt(board, p))
           /\ IF p \in plan.flipped.bits
              THEN /\ top_card(FieldAt(board, p)) = NoCard
                   /\ req.card \in hidden_cards(FieldAt(board, p))
              ELSE /\ top_card(FieldAt(board, p)) = req.card
                   /\ (before # <<>> /\ top_card(before[1]) # NoCard) =>
                         top_card(before[1]) \in hidden_cards(FieldAt(board, p))

\* A card was stacked on a visible card and completed a line: three cells
\* are won and the stack at the play coordinate stays.
C15_Witness ==
    /\ ExecutedCombo
    /\ top_card(FieldAt(prev, <<req.i, req.j>>)) # NoCard
    /\ Cardinality(plan.won.bits) = BOARD_SIZE - 1
    /\ Len(board.fields) = Len(prev.fields) - (BOARD_SIZE - 1)

\* C19: across every successful play, each cell present in both the source
\* and the result board has a hidden set that contains its source hidden set;
\* a hidden card leaves the board only when its whole cell is in the won set.
C19_HiddenCardsStay ==
    Executed =>
        \A c \in CellCoords(prev) :
            /\ c \in CellCoords(board) =>
                  hidden_cards(FieldAt(prev, c)) \subseteq hidden_cards(FieldAt(board, c))
            /\ c \notin CellCoords(board) => c \in plan.won.bits

\* A card was stacked on a cell that already held hidden cards: the cell
\* keeps them and gains the card that was on top.
C19_Witness ==
    /\ ExecutedCombo
    /\ hidden_cards(FieldAt(prev, <<req.i, req.j>>)) # {}
    /\ top_card(FieldAt(prev, <<req.i, req.j>>)) # NoCard
    /\ hidden_cards(FieldAt(board, <<req.i, req.j>>)) =
          hidden_cards(FieldAt(prev, <<req.i, req.j>>))
              \cup {top_card(FieldAt(prev, <<req.i, req.j>>))}

\* C20: execute removes exactly the cells whose coordinates are in the won
\* set, and copies every source cell that is not in the won set, not in the
\* flip set and not at the play coordinate to the new board identically.
C20_RemovesWonCopiesRest ==
    Executed =>
        /\ CellCoords(prev) \ CellCoords(board) = CellCoords(prev) \cap plan.won.bits
        /\ Len(board.fields) = Cardinality(CellCoords(board))
        /\ \A c \in CellCoords(prev) \ (plan.won.bits \cup plan.flipped.bits
                                          \cup {<<req.i, req.j>>}) :
              c \in CellCoords(board) /\ FieldAt(board, c) = FieldAt(prev, c)

\* A play won cells while a cell with hidden cards, away from the play
\* coordinate and outside the flip and won sets, was copied.
C20_Witness ==
    /\ Executed
    /\ CellCoords(prev) \cap plan.won.bits # {}
    /\ \E c \in CellCoords(prev) \ (plan.won.bits \cup plan.flipped.bits
                                      \cup {<<req.i, req.j>>}) :
          hidden_cards(FieldAt(prev, c)) # {} /\ c \in CellCoords(board)

\* The coordinates of a list of Fields, and the list's order by (i, j).
FieldCoords(fs) == {<<fs[k].i, fs[k].j>> : k \in Idx(fs)}
UniqueCoords(fs) == Cardinality(FieldCoords(fs)) = Len(fs)
Ascending(fs) ==
    \A k \in 1 .. (Len(fs) - 1) :
        \/ fs[k].i < fs[k + 1].i
        \/ fs[k].i = fs[k + 1].i /\ fs[k].j < fs[k + 1].j

\* The elements of a sequence.
Range(fs) == {fs[k] : k \in Idx(fs)}

\* The input is a valid cell list: every cell holds a card, no coordinate
\* is listed twice.
ValidInput ==
    /\ UniqueCoords(input)
    /\ \A k \in Idx(input) :
          input[k].top_card # NoCard \/ input[k].hidden_cards # {}

\* C16: for any non-empty valid cell list with unique coordinates, given in
\* any order, Board::new followed by to_fields_vec returns the same cells
\* ordered strictly ascending by (i, j); likewise the snapshot of any board
\* reached by plays is ascending.
C16_SnapshotAscending ==
    (pc = "snapshot" /\ ValidInput) =>
        /\ Ascending(fields_vec)
        /\ Len(fields_vec) = Len(board.fields)
        /\ Range(fields_vec) = {FieldOfEntry(board.fields[k]) : k \in Idx(board.fields)}
        /\ plays = 0 =>
              Range(fields_vec) = Range(input) /\ Len(fields_vec) = Len(input)

\* The snapshot of a board built from two valid cells listed in descending
\* order.
C16_Witness ==
    /\ pc = "snapshot" /\ ValidInput /\ plays = 0
    /\ Len(input) = MaxCells
    /\ ~Ascending(input)
    /\ fields_vec # input

\* The coordinates of the input span more than 4 rows or more than 4 columns.
SpansOver(fs) ==
    \E a \in FieldCoords(fs), b \in FieldCoords(fs) :
        a[1] - b[1] + 1 > BOARD_SIZE \/ a[2] - b[2] + 1 > BOARD_SIZE

\* A board was built from the input.
Built == pc \in {"idle", "executed", "snapshot"}

\* C17: construction fails (assertion) when the cell list is empty or its
\* bounding box spans more than 4 on either axis; it succeeds for every
\* non-empty list whose coordinates span at most 4 on both axes.
C17_FailsIffEmptyOrTooWide ==
    /\ pc = "panicked" => (input = <<>> \/ SpansOver(input))
    /\ Built => (input # <<>> /\ ~SpansOver(input))

\* C17, amended: construction fails when the list is empty or spans more
\* than 4 on an axis; it succeeds for every non-empty list of cells that each
\* hold a card and that span at most 4 on both axes (a list with a cell that
\* holds no card fails the debug assertion of a debug build).
C17_FailsOnlyIfEmptyTooWideOrBlank ==
    /\ pc = "panicked" =>
          \/ input = <<>>
          \/ SpansOver(input)
          \/ \E k \in Idx(input) :
                input[k].top_card = NoCard /\ input[k].hidden_cards = {}
    /\ Built => (input # <<>> /\ ~SpansOver(input))

\* Construction failed for a list of cells that hold cards and span 4 rows
\* or fewer but more than 4 columns.
C17_Witness ==
    /\ pc = "panicked"
    /\ ValidInput
    /\ \A a \in FieldCoords(input), b \in FieldCoords(input) :
          a[1] - b[1] + 1 <= BOARD_SIZE
    /\ SpansOver(input)

\* C18: for every i8 coordinate (i, j) and every bounding box with i8 bounds,
\* -128 and 127 included, is_in_bounds never overflows and returns true
\* exactly when i_max - 3 <= i <= i_min + 3 and j_max - 3 <= j <= j_min + 3
\* over the unbounded integers.
C18_InBoundsExact ==
    pc \in {"inside", "outside"} =>
        ((pc = "inside") <=>
            /\ board.bbox.i_max - 3 <= req.i /\ req.i <= board.bbox.i_min + 3
            /\ board.bbox.j_max - 3 <= req.j /\ req.j <= board.bbox.j_min + 3)

\* The query whose difference i - i_min is 255, beyond i8: answered outside.
C18_Witness ==
    /\ pc = "outside"
    /\ req.i = I8_MAX /\ board.bbox.i_min = I8_MIN
    /\ board.bbox.j_min <= req.j /\ req.j <= board.bbox.j_max

\* C21: starting from a board whose cell coordinates are pairwise distinct,
\* after any sequence of successful plays the cell list still has pairwise
\* distinct coordinates and therefore never more than 16 entries.
C21_CoordinatesStayDistinct ==
    /\ \A k \in Idx(board.fields), n \in Idx(board.fields) :
          k # n => <<board.fields[k].i, board.fields[k].j>>
                     # <<board.fields[n].i, board.fields[n].j>>
    /\ Len(board.fields) <= BOARD_SIZE * BOARD_SIZE

\* A card was stacked on a cell of a board with all 16 cells occupied: the
\* cell list still has 16 entries.
C21_Witness ==
    /\ ExecutedCombo
    /\ Len(prev.fields) = BOARD_SIZE * BOARD_SIZE
    /\ Len(board.fields) = BOARD_SIZE * BOARD_SIZE

\* All cards, visible and hidden, on the board b.
AllCards(b) == CardsAt(b, CellCoords(b))

\* No card lies in two cells of b.
CardsDistinct(b) ==
    \A k \in Idx(b.fields), n \in Idx(b.fields) :
        k # n => all_cards(b.fields[k].field) \cap all_cards(b.fields[n].field) = {}

\* The cards on the result and cards_won are disjoint and together are the
\* cards of the source and the played card.
CardsConserved ==
    /\ AllCards(board) \cap plan.cards_won = {}
    /\ AllCards(board) \cup plan.cards_won = AllCards(prev) \cup {req.card}

\* C22: cards are conserved by a play: for every accepted play of a card not
\* already on the board, the set of all cards (visible and hidden) on the
\* resulting board and the cards_won set are disjoint, and their union equals
\* the set of all cards on the source board plus the played card.
C22_CardsConserved ==
    (Executed /\ req.card \notin AllCards(prev)) => CardsConserved

\* C22, amended: as C22, for a source board on which no card lies in two
\* cells.
C22_CardsConservedOnDistinctCards ==
    (Executed /\ req.card \notin AllCards(prev) /\ CardsDistinct(prev)) =>
        CardsConserved

\* A card new to a board of distinct cards was stacked on a cell and won
\* cells, one of them holding a hidden card, while other cells stayed.
C22_Witness ==
    /\ ExecutedCombo
    /\ req.card \notin AllCards(prev) /\ CardsDistinct(prev)
    /\ \E c \in plan.won.bits : hidden_cards(FieldAt(prev, c)) # {}
    /\ Len(board.fields) > 1

====
